---- MODULE Spec2Model ----
(***************************************************************************)
(* Model of UnityMcpServer/src/tools/manage_screenshot.py: the tool        *)
(* manage_screenshot, which forwards a screenshot request to the Unity     *)
(* transport and shapes the reply.                                         *)
(*                                                                         *)
(* Python values are tagged records (field t).  A str whose characters the *)
(* code looks at (the base64 text, a str received where a mapping was      *)
(* expected) is held as a sequence of one-character strings in field c;    *)
(* every other str is held whole in field v.  An exception that is raised  *)
(* is the value Exc(type, text); an operator that models an expression     *)
(* which may raise yields either the expression's value or that exception. *)
(***************************************************************************)
EXTENDS Integers, Sequences, FiniteSets, TLC

VARIABLES pc, args, sent, outcome, ret

vars == <<pc, args, sent, outcome, ret>>

(***************************************************************************)
(* Python values                                                           *)
(***************************************************************************)
PyNone == [t |-> "none"]
PyBool(b) == [t |-> "bool", v |-> b]
PyInt(i) == [t |-> "int", v |-> i]
PyStr(s) == [t |-> "str", v |-> s]
PyText(cs) == [t |-> "str", c |-> cs]
PyBytes(bs) == [t |-> "bytes", v |-> bs]
PyDict(f) == [t |-> "dict", v |-> f]
PyImage(bs) == [t |-> "image", data |-> bs]
Exc(type, text) == [t |-> "exc", type |-> type, text |-> text]

IsExc(x) == x.t = "exc"
IsText(x) == x.t = "str" /\ "c" \in DOMAIN x
EmptyDict == PyDict(<<>>)

\* type(x).__name__
TypeName(x) ==
    CASE x.t = "none" -> "NoneType"
      [] x.t = "bool" -> "bool"
      [] x.t = "int" -> "int"
      [] x.t = "str" -> "str"
      [] x.t = "bytes" -> "bytes"
      [] x.t = "dict" -> "dict"
      [] x.t = "image" -> "Image"

\* fault: any value but None counts as true (C9 detects it)
Truthy_not_none(x) == x.t # "none"

\* bool(x)
Truthy(x) ==
    CASE x.t = "none" -> FALSE
      [] x.t = "bool" -> x.v
      [] x.t = "int" -> x.v # 0
      [] x.t = "str" -> IF IsText(x) THEN x.c # <<>> ELSE x.v # ""
      [] x.t = "bytes" -> x.v # <<>>
      [] x.t = "dict" -> DOMAIN x.v # {}
      [] x.t = "image" -> TRUE

RECURSIVE Join(_)
\* "".join(cs)
Join(cs) == IF cs = <<>> THEN "" ELSE Head(cs) \o Join(Tail(cs))

\* format(x, ""), the conversion an f-string applies to {x}
PyFormat(x) ==
    CASE x.t = "none" -> "None"
      [] x.t = "bool" -> IF x.v THEN "True" ELSE "False"
      [] x.t = "int" -> ToString(x.v)
      [] x.t = "str" -> IF IsText(x) THEN Join(x.c) ELSE x.v

\* obj.get(key, default)
DictGet(obj, key, default) ==
    IF obj.t = "dict"
    THEN IF key \in DOMAIN obj.v THEN obj.v[key] ELSE default
    ELSE Exc("AttributeError",
             "'" \o TypeName(obj) \o "' object has no attribute 'get'")

ImageDataKey == <<"i", "m", "a", "g", "e", "D", "a", "t", "a">>

\* "imageData" in obj
ContainsImageData(obj) ==
    CASE obj.t = "dict" -> PyBool("imageData" \in DOMAIN obj.v)
      [] IsText(obj) ->
           PyBool(\E i \in 1..Len(obj.c) :
                     /\ i + Len(ImageDataKey) - 1 <= Len(obj.c)
                     /\ SubSeq(obj.c, i, i + Len(ImageDataKey) - 1) = ImageDataKey)
      [] OTHER -> Exc("TypeError",
                      "argument of type '" \o TypeName(obj) \o "' is not iterable")

\* obj["imageData"]
ImageDataItem(obj) ==
    CASE obj.t = "dict" ->
           IF "imageData" \in DOMAIN obj.v THEN obj.v["imageData"]
           ELSE Exc("KeyError", "'imageData'")
      [] obj.t = "str" -> Exc("TypeError", "string indices must be integers")
      [] OTHER -> Exc("TypeError",
                      "'" \o TypeName(obj) \o "' object is not subscriptable")

\* len(x)
PyLen(x) ==
    CASE IsText(x) -> PyInt(Len(x.c))
      [] x.t = "bytes" -> PyInt(Len(x.v))
      [] x.t = "dict" -> PyInt(Cardinality(DOMAIN x.v))
      [] OTHER -> Exc("TypeError",
                      "object of type '" \o TypeName(x) \o "' has no len()")

\* s.lower(), for the format names the transport sends
LowerTable == [PNG |-> "png", JPG |-> "jpg", png |-> "png"]

Lower(x) ==
    IF x.t = "str" /\ ~IsText(x)
    THEN PyStr(LowerTable[x.v])
    ELSE Exc("AttributeError",
             "'" \o TypeName(x) \o "' object has no attribute 'lower'")

\* a + b, for b a str
PyConcat(a, b) ==
    IF a.t = "str" /\ ~IsText(a)
    THEN PyStr(a.v \o b)
    ELSE Exc("TypeError",
             "unsupported operand type(s) for +: '" \o TypeName(a) \o "' and 'str'")

(***************************************************************************)
(* base64.b64decode(s), with the default validate=False                    *)
(***************************************************************************)
\* the 64 characters that carry data, in value order (value = position - 1)
B64Alphabet ==
    <<
    "A", "B", "C", "D", "E", "F", "G", "H", "I", "J", "K", "L", "M", "N", "O", "P",
    "Q", "R", "S", "T", "U", "V", "W", "X", "Y", "Z", "a", "b", "c", "d", "e", "f",
    "g", "h", "i", "j", "k", "l", "m", "n", "o", "p", "q", "r", "s", "t", "u", "v",
    "w", "x", "y", "z", "0", "1", "2", "3", "4", "5", "6", "7", "8", "9", "+", "/" >>

B64Pad == "="

\* a character outside ASCII, for which s.encode('ascii') raises
NonAsciiChar == "\\u00e9"

IsB64Char(ch) == \E i \in 1..Len(B64Alphabet) : B64Alphabet[i] = ch

B64Value(ch) == (CHOOSE i \in 1..Len(B64Alphabet) : B64Alphabet[i] = ch) - 1

RECURSIVE a2b_base64(_, _, _, _, _, _)
\* binascii.a2b_base64 (not strict): one pass over the characters cs from
\* position i, with the quad position, the bits left over, the pads seen
\* since the last data character and the bytes produced
a2b_base64(cs, i, quad_pos, leftchar, pads, out) ==
    IF i > Len(cs)
    THEN IF quad_pos = 0 THEN PyBytes(out)
         ELSE IF quad_pos = 1
              THEN Exc("binascii.Error",
                       "Invalid base64-encoded string: number of data characters ("
                       \o ToString((Len(out) \div 3) * 4 + 1)
                       \o ") cannot be 1 more than a multiple of 4")
              ELSE Exc("binascii.Error", "Incorrect padding")
    ELSE LET ch == cs[i] IN
         IF ch = B64Pad
         THEN IF quad_pos >= 2 /\ quad_pos + pads + 1 >= 4
              THEN PyBytes(out)
              ELSE a2b_base64(cs, i + 1, quad_pos, leftchar,
                              IF quad_pos >= 2 THEN pads + 1 ELSE pads, out)
         ELSE IF ~IsB64Char(ch)
         THEN a2b_base64(cs, i + 1, quad_pos, leftchar, pads, out)
         ELSE LET this_ch == B64Value(ch) IN
              CASE quad_pos = 0 ->
                     a2b_base64(cs, i + 1, 1, this_ch, 0, out)
                [] quad_pos = 1 ->
                     a2b_base64(cs, i + 1, 2, this_ch % 16, 0,
                                Append(out, (leftchar * 4 + this_ch \div 16) % 256))
                [] quad_pos = 2 ->
                     a2b_base64(cs, i + 1, 3, this_ch % 4, 0,
                                Append(out, (leftchar * 16 + this_ch \div 4) % 256))
                [] quad_pos = 3 ->
                     a2b_base64(cs, i + 1, 0, 0, 0,
                                Append(out, (leftchar * 64 + this_ch) % 256))

b64decode(s) ==
    IF IsText(s)
    THEN IF \E i \in 1..Len(s.c) : s.c[i] = NonAsciiChar
         THEN Exc("ValueError",
                  "string argument should contain only ASCII characters")
         ELSE a2b_base64(s.c, 1, 0, 0, 0, <<>>)
    ELSE IF s.t = "bytes" THEN s
    ELSE Exc("TypeError",
             "argument should be a bytes-like object or ASCII string, not '"
             \o TypeName(s) \o "'")

(***************************************************************************)
(* The environment of one invocation: whether get_unity_connection()       *)
(* returns, what send_command returns or raises, and whether the Image     *)
(* constructor accepts the decoded bytes.                                  *)
(***************************************************************************)
\* get_unity_connection()
get_unity_connection(env) ==
    IF env.connect THEN PyStr("UnityConnection")
    ELSE Exc("Exception", "Could not connect to Unity")

\* Image(data=image_data)
Image(image_data, env) ==
    IF env.image_ok THEN PyImage(image_data.v)
    ELSE Exc("ValueError", "Image construction failed")

(***************************************************************************)
(* manage_screenshot                                                       *)
(***************************************************************************)
CommandName == "manage_screenshot"
CapturedMessage == "Screenshot captured successfully."
SuccessMessage == "Screenshot operation successful."
UnknownErrorMessage == "An unknown error occurred during screenshot operation."
PythonErrorPrefix == "Python error managing screenshot: "

\* fault: the None values are not removed (C7 detects it)
BuildParams_keep_none(a) ==
    PyDict([action |-> a.action, cameraName |-> a.camera_name,
            width |-> a.width, height |-> a.height, format |-> a.format])

\* the parameters, with the unset (None) ones removed
BuildParams(a) ==
    LET params == [action |-> a.action, cameraName |-> a.camera_name,
                   width |-> a.width, height |-> a.height, format |-> a.format]
    IN PyDict([k \in {k \in DOMAIN params : params[k] # PyNone} |-> params[k]])

\* fault: the command is sent a second time (C8 detects it)
Commands_retry(a, env) ==
    IF IsExc(get_unity_connection(env)) THEN <<>>
    ELSE <<[name |-> CommandName, params |-> BuildParams(a)],
           [name |-> CommandName, params |-> BuildParams(a)]>>

\* the commands one invocation puts on the transport, in order
Commands(a, env) ==
    IF IsExc(get_unity_connection(env)) THEN <<>>
    ELSE <<[name |-> CommandName, params |-> BuildParams(a)]>>

\* fault: height and width change places (C6 detects it)
Resolution_swapped(data) ==
    PyStr(PyFormat(DictGet(data, "height", PyStr("unknown"))) \o "x"
          \o PyFormat(DictGet(data, "width", PyStr("unknown"))))

\* f"{data.get('width', 'unknown')}x{data.get('height', 'unknown')}"
Resolution(data) ==
    PyStr(PyFormat(DictGet(data, "width", PyStr("unknown"))) \o "x"
          \o PyFormat(DictGet(data, "height", PyStr("unknown"))))

\* the inner try block: decode, build the Image, return it with its metadata
ImageResult(response, data, env) ==
    LET base64_data == ImageDataItem(data) IN
    IF IsExc(base64_data) THEN base64_data ELSE
    LET image_data == b64decode(base64_data) IN
    IF IsExc(image_data) THEN image_data ELSE
    LET screenshot_image == Image(image_data, env) IN
    IF IsExc(screenshot_image) THEN screenshot_image ELSE
    PyDict([success |-> PyBool(TRUE),
            message |-> DictGet(response, "message", PyStr(CapturedMessage)),
            image |-> screenshot_image,
            metadata |-> PyDict([camera |-> DictGet(data, "cameraName", PyNone),
                                 resolution |-> Resolution(data),
                                 format |-> DictGet(data, "format", PyNone),
                                 size_bytes |-> PyLen(image_data)])])

\* the inner except block: the data URI fallback, for the exception e
FallbackResult(response, data, e) ==
    LET fmt == DictGet(data, "format", PyStr("PNG")) IN
    IF IsExc(fmt) THEN fmt ELSE
    LET image_format == Lower(fmt) IN
    IF IsExc(image_format) THEN image_format ELSE
    LET base64_data == ImageDataItem(data) IN
    IF IsExc(base64_data) THEN base64_data ELSE
    LET data_uri == PyStr("data:image/" \o image_format.v \o ";base64,"
                          \o PyFormat(base64_data))
        message == PyConcat(DictGet(response, "message", PyStr(CapturedMessage)),
                            " (Image object failed: " \o e.text \o ")")
    IN
    IF IsExc(message) THEN message ELSE
    LET size == PyLen(base64_data) IN
    IF IsExc(size) THEN size ELSE
    PyDict([success |-> PyBool(TRUE),
            message |-> message,
            data |-> PyDict([image_url |-> data_uri,
                             base64_data |-> base64_data,
                             camera |-> DictGet(data, "cameraName", PyNone),
                             resolution |-> Resolution(data),
                             format |-> DictGet(data, "format", PyNone),
                             size_kb |-> PyInt(((size.v * 3) \div 4) \div 1024)])])

\* fault: no fallback, the exception of the inner try goes on (C2 detects it)
CaptureResult_reraise(response, data, env) == ImageResult(response, data, env)

\* the capture branch: try the Image, fall back to the data URI
CaptureResult(response, data, env) ==
    LET r == ImageResult(response, data, env) IN
    IF IsExc(r) THEN FallbackResult(response, data, r) ELSE r

\* non-capture actions, or no image data
PlainResult(response, data) ==
    PyDict([success |-> PyBool(TRUE),
            message |-> DictGet(response, "message", PyStr(SuccessMessage)),
            data |-> data])

\* fault: the failure carries the response's message, not its error (C3
\* detects it)
FailureResult_message(response) ==
    PyDict([success |-> PyBool(FALSE),
            message |-> DictGet(response, "message", PyStr(UnknownErrorMessage))])

\* the transport reported failure
FailureResult(response) ==
    PyDict([success |-> PyBool(FALSE),
            message |-> DictGet(response, "error", PyStr(UnknownErrorMessage))])

\* fault: the action is not looked at (C4 detects it)
ProcessResponse_any_action(action, response, env) ==
    LET success == DictGet(response, "success", PyNone) IN
    IF IsExc(success) THEN success ELSE
    IF Truthy(success)
    THEN LET data == DictGet(response, "data", EmptyDict) IN
         LET has == ContainsImageData(data) IN
         IF IsExc(has) THEN has
         ELSE IF has.v THEN CaptureResult(response, data, env)
         ELSE PlainResult(response, data)
    ELSE FailureResult(response)

\* fault: a capture goes to the image branch whether or not the data holds
\* imageData (C5 detects it)
ProcessResponse_no_key_check(action, response, env) ==
    LET success == DictGet(response, "success", PyNone) IN
    IF IsExc(success) THEN success ELSE
    IF Truthy(success)
    THEN LET data == DictGet(response, "data", EmptyDict) IN
         IF action = PyStr("capture")
         THEN CaptureResult(response, data, env)
         ELSE PlainResult(response, data)
    ELSE FailureResult(response)

\* "Process response"
ProcessResponse(action, response, env) ==
    LET success == DictGet(response, "success", PyNone) IN
    IF IsExc(success) THEN success ELSE
    IF Truthy(success)
    THEN LET data == DictGet(response, "data", EmptyDict) IN
         IF action = PyStr("capture")
         THEN LET has == ContainsImageData(data) IN
              IF IsExc(has) THEN has
              ELSE IF has.v THEN CaptureResult(response, data, env)
              ELSE PlainResult(response, data)
         ELSE PlainResult(response, data)
    ELSE FailureResult(response)

\* the outer try block: a result, or the exception that leaves it
TryBlock(a, env) ==
    LET conn == get_unity_connection(env) IN
    IF IsExc(conn) THEN conn ELSE
    IF IsExc(env.send) THEN env.send
    ELSE ProcessResponse(a.action, env.send, env)

\* the outer except block
PythonError(e) ==
    PyDict([success |-> PyBool(FALSE),
            message |-> PyStr(PythonErrorPrefix \o e.text)])

\* fault: no outer try, the exception leaves the function (C1 detects it)
manage_screenshot_uncaught(a, env) == TryBlock(a, env)

\* what one invocation returns (an exception, if one left the function)
manage_screenshot(a, env) ==
    LET r == TryBlock(a, env) IN
    IF IsExc(r) THEN PythonError(r) ELSE r

(***************************************************************************)
(* Inputs: the arguments a caller passes and what the environment does     *)
(***************************************************************************)
MaxB64Len == 4

\* a data character, the pad, and a character outside the alphabet
B64Chars == {"Q", "=", "!"}

B64Texts ==
    UNION {[1..n -> B64Chars] : n \in 0..MaxB64Len}
        \cup {<<"Q", "U", "J", "D">>, <<NonAsciiChar>>}

\* the signature's defaults
DefaultArgs ==
    [action |-> PyStr("capture"), camera_name |-> PyNone, width |-> PyNone,
     height |-> PyNone, format |-> PyStr("PNG")]

ArgValues ==
    [action : {PyStr("capture"), PyStr("list_cameras")},
     camera_name : {PyNone, PyStr("Main Camera")},
     width : {PyNone, PyInt(800)},
     height : {PyNone, PyInt(600)},
     format : {PyStr("PNG"), PyNone}]

\* a key that is absent, or present with one of the values
Opt(key, values) == {<<>>} \cup {key :> v : v \in values}

Metas ==
    {c @@ w @@ h @@ f :
        c \in Opt("cameraName", {PyStr("Main Camera")}),
        w \in Opt("width", {PyInt(640)}),
        h \in Opt("height", {PyInt(480)}),
        f \in Opt("format", {PyStr("JPG"), PyNone})}

FullMeta ==
    [cameraName |-> PyStr("Main Camera"), width |-> PyInt(640),
     height |-> PyInt(480), format |-> PyStr("JPG")]

ValidText == PyText(<<"Q", "U", "J", "D">>)
MalformedText == PyText(<<"Q", "Q">>)

\* data mappings: every shape of metadata with a few images, and every
\* base64 text with the full metadata
DataDicts ==
    {PyDict(i @@ m) :
        i \in Opt("imageData", {ValidText, MalformedText, PyNone, PyInt(7)}),
        m \in Metas}
    \cup {PyDict(("imageData" :> PyText(cs)) @@ FullMeta) : cs \in B64Texts}

DataSmall ==
    {PyNone, PyText(ImageDataKey), PyText(<<"n", "o">>), EmptyDict,
     PyDict(("imageData" :> ValidText) @@ FullMeta),
     PyDict(("imageData" :> MalformedText) @@ FullMeta)}

MessageValues == {PyStr("Screenshot taken"), PyNone}

Responses ==
    {PyNone, PyText(<<"o", "k">>)}
    \cup {PyDict(s @@ m @@ e @@ d) :
            s \in Opt("success", {PyBool(TRUE), PyBool(FALSE), PyNone,
                                  PyInt(1), PyInt(0)}),
            m \in Opt("message", MessageValues),
            e \in Opt("error", {PyStr("Camera not found")}),
            d \in Opt("data", DataSmall)}
    \cup {PyDict(("success" :> PyBool(TRUE)) @@ m @@ ("data" :> d)) :
            m \in Opt("message", MessageValues), d \in DataDicts}

\* what send_command does: it returns a response or raises
SendOutcomes == Responses \cup {Exc("Exception", "Timeout receiving Unity response")}

NoOutcome == [connect |-> FALSE]

(***************************************************************************)
(* One invocation at a time ("single synchronous call"): the call is idle, *)
(* blocked in send_command, or has returned.                               *)
(***************************************************************************)
Init ==
    /\ pc = "idle"
    /\ args = DefaultArgs
    /\ sent = <<>>
    /\ outcome = NoOutcome
    /\ ret = PyNone

\* the tool is invoked and get_unity_connection() raises: the call returns
InvokeNoConnection ==
    /\ pc = "idle"
    /\ \E a \in ArgValues :
          /\ args' = a
          /\ outcome' = [connect |-> FALSE]
          /\ sent' = sent \o Commands(a, outcome')
          /\ ret' = manage_screenshot(a, outcome')
    /\ pc' = "returned"

\* the tool is invoked, the connection is obtained and the command is sent
Invoke ==
    /\ pc = "idle"
    /\ \E a \in ArgValues :
          /\ args' = a
          /\ outcome' = [connect |-> TRUE]
          /\ sent' = sent \o Commands(a, outcome')
    /\ pc' = "awaiting"
    /\ UNCHANGED ret

\* send_command returns or raises, and the call runs to its return
Respond ==
    /\ pc = "awaiting"
    /\ \E r \in SendOutcomes, ok \in BOOLEAN :
          /\ outcome' = [connect |-> TRUE, send |-> r, image_ok |-> ok]
          /\ ret' = manage_screenshot(args, outcome')
    /\ pc' = "returned"
    /\ UNCHANGED <<args, sent>>

\* the caller takes the result; the tool can be invoked again
Return ==
    /\ pc = "returned"
    /\ pc' = "idle"
    /\ sent' = <<>>
    /\ outcome' = NoOutcome
    /\ ret' = PyNone
    /\ UNCHANGED args

Next ==
    \/ InvokeNoConnection
    \/ Invoke
    \/ Respond
    \/ Return

Spec == Init /\ [][Next]_vars

(***************************************************************************)
(* Vocabulary of the properties                                            *)
(***************************************************************************)
Returned == pc = "returned"
IsCapture == args.action = PyStr("capture")

\* send_command returned a value
Responded == Returned /\ outcome.connect /\ ~IsExc(outcome.send)

\* the values Python treats as false
FalsyValues == {PyNone, PyBool(FALSE), PyInt(0), PyStr(""), PyText(<<>>), EmptyDict}

\* send_command returned a mapping whose success flag is truthy
TransportSuccess ==
    /\ Responded
    /\ outcome.send.t = "dict"
    /\ "success" \in DOMAIN outcome.send.v
    /\ outcome.send.v.success \notin FalsyValues

\* the data of the response ({} when it has none)
UpstreamData ==
    IF "data" \in DOMAIN outcome.send.v THEN outcome.send.v.data ELSE EmptyDict

\* the message of the response, or the given default
UpstreamMessage(default) ==
    IF "message" \in DOMAIN outcome.send.v THEN outcome.send.v.message
    ELSE PyStr(default)

\* a field of the upstream data mapping, None when it is absent
UpstreamField(key) ==
    IF key \in DOMAIN UpstreamData.v THEN UpstreamData.v[key] ELSE PyNone

\* a dimension of the upstream data mapping as the resolution shows it
UpstreamDim(key) ==
    IF key \in DOMAIN UpstreamData.v THEN ToString(UpstreamData.v[key].v)
    ELSE "unknown"

HasImageData == UpstreamData.t = "dict" /\ "imageData" \in DOMAIN UpstreamData.v
LacksImageData == UpstreamData.t = "dict" /\ "imageData" \notin DOMAIN UpstreamData.v
Decodes == HasImageData /\ ~IsExc(b64decode(UpstreamData.v.imageData))

RetIsRecord == ret.t = "dict" /\ {"success", "message"} \subseteq DOMAIN ret.v
RetFailed == RetIsRecord /\ ret.v.success = PyBool(FALSE)
RetSucceeded == RetIsRecord /\ ret.v.success = PyBool(TRUE)
RetPythonError == RetFailed /\ DOMAIN ret.v = {"success", "message"} /\ ret.v.message.t = "str"
ImageBearing == RetIsRecord /\ "image" \in DOMAIN ret.v /\ ret.v.image.t = "image"
RetRawData ==
    /\ RetSucceeded
    /\ DOMAIN ret.v = {"success", "message", "data"}
    /\ ret.v.data = UpstreamData

MetaFields == {"cameraName", "width", "height", "format", "imageData"}

(***************************************************************************)
(* C1                                                                      *)
(***************************************************************************)
\* C1 as stated: every invocation returns a record, no exception leaves the
\* tool, and each of the listed failures (get_unity_connection or
\* send_command raises, the response is not a mapping, the data field is
\* null or lacks fields) is reported with success=false and a message.
C1_Stated ==
    Returned =>
        /\ RetIsRecord
        /\ (\/ ~outcome.connect
            \/ IsExc(outcome.send)
            \/ outcome.send.t # "dict"
            \/ (TransportSuccess /\ UpstreamData = PyNone)
            \/ (TransportSuccess /\ "data" \in DOMAIN outcome.send.v
                    /\ UpstreamData.t = "dict"
                    /\ ~(MetaFields \subseteq DOMAIN UpstreamData.v)))
           => RetFailed

\* C1 (amended): every invocation returns a record with a success flag and
\* a message, and no exception leaves the tool; a raise of
\* get_unity_connection or send_command, a response that is not a mapping
\* and, for a capture, a null data field are reported with success=false
\* and a "Python error" message; a null data field of another action and a
\* data mapping that lacks fields are not failures: without imageData the
\* data is passed on, and an image that decodes is returned with success=true
\* whichever of cameraName, width, height and format the data lacks.
C1_NoExceptionEscapes ==
    Returned =>
        /\ RetIsRecord
        /\ ret.v.success \in {PyBool(TRUE), PyBool(FALSE)}
        /\ ~outcome.connect => RetPythonError
        /\ (outcome.connect /\ IsExc(outcome.send)) =>
              /\ RetPythonError
              /\ ret.v.message = PyStr(PythonErrorPrefix \o outcome.send.text)
        /\ (Responded /\ outcome.send.t # "dict") => RetPythonError
        /\ (TransportSuccess /\ IsCapture /\ UpstreamData = PyNone) => RetPythonError
        /\ (TransportSuccess /\ ~IsCapture /\ UpstreamData = PyNone) => RetRawData
        /\ (TransportSuccess /\ LacksImageData) => RetRawData
        /\ (TransportSuccess /\ IsCapture /\ Decodes /\ outcome.image_ok) => RetSucceeded

\* C1's case: the transport raised, and a record reporting it came back
C1_Witness ==
    /\ Returned
    /\ outcome.connect
    /\ IsExc(outcome.send)
    /\ RetPythonError

(***************************************************************************)
(* C2                                                                      *)
(***************************************************************************)
\* the image data of a successful capture cannot be decoded, or the Image
\* cannot be built from it
ImageStepFails ==
    /\ TransportSuccess
    /\ IsCapture
    /\ HasImageData
    /\ (~Decodes \/ ~outcome.image_ok)

\* what the fallback needs: a format and a message that are absent or a
\* str, and image data that is a str
FallbackBuilds ==
    /\ UpstreamField("format").t = "str" \/ "format" \notin DOMAIN UpstreamData.v
    /\ UpstreamMessage(CapturedMessage).t = "str"
    /\ UpstreamField("imageData").t = "str"

UpstreamFailed ==
    /\ Responded
    /\ outcome.send.t = "dict"
    /\ "success" \in DOMAIN outcome.send.v
    /\ outcome.send.v.success = PyBool(FALSE)

\* C3: whenever the response has success=false, whatever the action and the
\* response's other fields, the result has success=false, its message is the
\* upstream error text (the fixed "unknown error" text when the response
\* carries none), and it holds no data and no image.
C3_UpstreamFailureReported ==
    UpstreamFailed =>
        /\ RetFailed
        /\ DOMAIN ret.v = {"success", "message"}
        /\ ret.v.message =
              IF "error" \in DOMAIN outcome.send.v THEN outcome.send.v.error
              ELSE PyStr(UnknownErrorMessage)

\* C3's case: a failed capture whose response also carries a message and
\* image data
C3_Witness ==
    /\ UpstreamFailed
    /\ IsCapture
    /\ "error" \in DOMAIN outcome.send.v
    /\ "message" \in DOMAIN outcome.send.v
    /\ HasImageData
    /\ ret.v.message = outcome.send.v.error

(***************************************************************************)
(* C4                                                                      *)
(***************************************************************************)
\* C4: for every action other than "capture" and every successful response,
\* the result's data is the upstream data unchanged ({} when the response
\* has none), also when the upstream data holds an imageData field: nothing
\* is decoded, re-encoded or rewritten.
C4_NonCaptureDataUnchanged ==
    (TransportSuccess /\ ~IsCapture) => RetRawData

\* C4's case: list_cameras answered with data that holds image data
C4_Witness ==
    /\ TransportSuccess
    /\ ~IsCapture
    /\ HasImageData
    /\ UpstreamData.v.imageData = ValidText
    /\ ret.v.data = UpstreamData

(***************************************************************************)
(* C5                                                                      *)
(***************************************************************************)
\* C5 as stated: on transport success the result is image-bearing exactly
\* when the action is "capture" and the upstream data contains imageData;
\* in every other successful case the raw upstream data is the result's data.
C5_Stated ==
    TransportSuccess =>
        /\ ImageBearing <=> (IsCapture /\ HasImageData)
        /\ ~(IsCapture /\ HasImageData) => RetRawData

\* C5 (amended): on transport success the result is image-bearing (an image
\* with camera, resolution and format annotations) exactly when the action
\* is "capture", the upstream data contains imageData, the imageData decodes
\* as base64 and the Image object is built; for another action, or a capture
\* whose data mapping has no imageData, the raw upstream data is the
\* result's data.
C5_ImageBearingExactlyWhenDecoded ==
    TransportSuccess =>
        /\ ImageBearing <=> (IsCapture /\ Decodes /\ outcome.image_ok)
        /\ ImageBearing =>
              /\ "data" \notin DOMAIN ret.v
              /\ {"camera", "resolution", "format"} \subseteq DOMAIN ret.v.metadata.v
        /\ (~IsCapture \/ LacksImageData) => RetRawData

\* C5's case: a capture whose image data decoded, returned as an image
C5_Witness ==
    /\ TransportSuccess
    /\ IsCapture
    /\ Decodes
    /\ UpstreamData.v.imageData = ValidText
    /\ ImageBearing
    /\ ret.v.image = PyImage(<<65, 66, 67>>)

(***************************************************************************)
(* C6                                                                      *)
(***************************************************************************)
\* the annotations a capture result must carry, from the upstream data
AnnotatedFromUpstream(meta) ==
    /\ meta.resolution = PyStr(UpstreamDim("width") \o "x" \o UpstreamDim("height"))
    /\ meta.camera = UpstreamField("cameraName")
    /\ meta.format = UpstreamField("format")

\* C6: for a capture whose successful response carries valid base64 image
\* data, the result's resolution is "{width}x{height}" of the upstream data
\* ("unknown" for a dimension it lacks), never of the requested width and
\* height, and its camera and format are the upstream cameraName and format;
\* this holds of the image result and of the data URI fallback alike.
C6_ResolutionFromUpstream ==
    (TransportSuccess /\ IsCapture /\ Decodes) =>
        /\ outcome.image_ok =>
              /\ ImageBearing
              /\ AnnotatedFromUpstream(ret.v.metadata.v)
        /\ (~outcome.image_ok /\ RetSucceeded) =>
              AnnotatedFromUpstream(ret.v.data.v)

\* C6's case: 800x600 was requested, the upstream data says 640x480
C6_Witness ==
    /\ TransportSuccess
    /\ IsCapture
    /\ Decodes
    /\ args.width = PyInt(800)
    /\ args.height = PyInt(600)
    /\ ImageBearing
    /\ ret.v.metadata.v.resolution = PyStr("640x480")
    /\ ret.v.metadata.v.camera = PyStr("Main Camera")

(***************************************************************************)
(* C7                                                                      *)
(***************************************************************************)
\* the argument that travels under each parameter key
ArgOf(key) ==
    CASE key = "action" -> args.action
      [] key = "cameraName" -> args.camera_name
      [] key = "width" -> args.width
      [] key = "height" -> args.height
      [] key = "format" -> args.format

ParamKeys == {"action", "cameraName", "width", "height", "format"}

\* C7: every command sent goes under the name "manage_screenshot"; its
\* parameters hold no None value, hold cameraName, width and height (and
\* action and format) exactly when that argument was supplied, and carry
\* every supplied argument unchanged.
C7_ParamsStripped ==
    \A i \in 1..Len(sent) :
        /\ sent[i].name = "manage_screenshot"
        /\ sent[i].params.t = "dict"
        /\ DOMAIN sent[i].params.v \subseteq ParamKeys
        /\ \A k \in ParamKeys :
              /\ k \in DOMAIN sent[i].params.v <=> ArgOf(k) # PyNone
              /\ k \in DOMAIN sent[i].params.v =>
                    /\ sent[i].params.v[k] # PyNone
                    /\ sent[i].params.v[k] = ArgOf(k)

\* C7's case: a command sent with a width but no camera name and no height
C7_Witness ==
    /\ pc = "awaiting"
    /\ Len(sent) = 1
    /\ args.camera_name = PyNone
    /\ args.width = PyInt(800)
    /\ args.height = PyNone
    /\ DOMAIN sent[1].params.v = {"action", "width", "format"}

(***************************************************************************)
(* C8                                                                      *)
(***************************************************************************)
\* C8: an invocation sends at most one command: exactly one once the
\* connection is obtained, none when get_unity_connection raises, and no
\* second one after an upstream failure, a transport exception or a local
\* decoding error.
C8_AtMostOneSend ==
    /\ Len(sent) <= 1
    /\ pc = "idle" => Len(sent) = 0
    /\ pc = "awaiting" => Len(sent) = 1
    /\ (Returned /\ outcome.connect) => Len(sent) = 1
    /\ (Returned /\ ~outcome.connect) => Len(sent) = 0

\* C8's case: the call returned after an upstream failure, one command sent
C8_Witness ==
    /\ UpstreamFailed
    /\ RetFailed
    /\ Len(sent) = 1

(***************************************************************************)
(* C9                                                                      *)
(***************************************************************************)
\* C9: every returned record holds a success key and a message key, and
\* success=true is returned only when send_command returned a mapping whose
\* success flag is truthy; a missing or falsy flag, a response that is no
\* mapping and a transport call that raised all give success=false.
C9_SuccessOnlyOnTruthyFlag ==
    Returned =>
        /\ RetIsRecord
        /\ ret.v.success \in {PyBool(TRUE), PyBool(FALSE)}
        /\ RetSucceeded => TransportSuccess
        /\ ~TransportSuccess => RetFailed

\* C9's case: a response with success=0 (falsy, not False) and data
C9_Witness ==
    /\ Responded
    /\ outcome.send.t = "dict"
    /\ "success" \in DOMAIN outcome.send.v
    /\ outcome.send.v.success = PyInt(0)
    /\ "data" \in DOMAIN outcome.send.v
    /\ RetFailed
====
